---- MODULE Spec2Model ----
(***************************************************************************)
(* Model of app.py, the Sales EDA dashboard script.  One run of the script *)
(* is a linear pass: sidebar widgets -> filtered view -> metrics -> charts *)
(* -> statistical summary -> insights -> export section.  Every user       *)
(* interaction (a widget change, a button click) re-runs the script from   *)
(* the loaded table.                                                       *)
(*                                                                         *)
(* Numbers are exact integers (rationals for ratios); floating-point       *)
(* rounding is not modelled.  A missing spreadsheet cell is NaN.           *)
(***************************************************************************)
EXTENDS Integers, Sequences, FiniteSets, TLC

VARIABLES
    df,                  \* the loaded table: a sequence of records (rows)
    cols,                \* df.columns: which well-known columns exist
    otherCols,           \* the table also has columns that are not well-known
    dateParsed,          \* df["Date"] has a datetime64 dtype
    pc,                  \* position of the script run
    date_range,          \* sidebar: None, (start,) or (start, end)
    selected_products,   \* sidebar: None or the list selected in the multiselect
    show_profit_margin,  \* sidebar checkbox
    df_view,             \* the FilteredView
    margins,             \* df_view["Profit_Margin"], None until assigned
    metrics,             \* total_sales, total_profit, total_qty
    figs,                \* chart variables: "undef" (name not bound), "None", "fig"
    df_agg,              \* the treemap's aggregate rows
    insights,            \* the list of InsightStatements
    corr_sp,             \* the Sales/Profit correlation
    export_fig,          \* the representative figure (a chart name) or None
    artifact,            \* what the last clicked export button offered for download
    notice,              \* st.error / st.warning / st.info shown by the export section
    error                \* the uncaught exception that stopped the run, or "none"

vars == <<df, cols, otherCols, dateParsed, pc, date_range, selected_products,
          show_profit_margin, df_view, margins, metrics, figs, df_agg, insights,
          corr_sp, export_fig, artifact, notice, error>>

-----------------------------------------------------------------------------
(* Bounds of the model. *)

\* rows of a table in Spec
MaxRows == 2
\* rows of a table in SpecCorr
MaxCorrRows == 4

-----------------------------------------------------------------------------
(* Values. *)

\* Python's None, and a value that is not None
None == <<>>
Some(x) == <<x>>

\* a spreadsheet cell: a number (or the code of a name), or missing (NaN / NaT)
NaN == [nan |-> TRUE, v |-> 0]
N(x) == [nan |-> FALSE, v |-> x]

Columns == {"Date", "Product", "Category", "Customer", "Sales", "Profit", "Quantity"}

Row(d, p, c, cu, s, pr, q) ==
    [Date |-> d, Product |-> p, Category |-> c, Customer |-> cu,
     Sales |-> s, Profit |-> pr, Quantity |-> q]

\* rows the tables of Spec are built from: an ordinary sale, a sale with zero
\* Sales and a loss, a row whose Product, Category and Customer cells are
\* missing, and a row whose Sales cell is missing
Pool ==
    << Row(N(1), N(1), N(1), N(1), N(4), N(1), N(2)),
       Row(N(2), N(2), N(1), N(2), N(0), N(-1), N(1)),
       Row(N(2), NaN, NaN, NaN, N(2), N(3), N(3)),
       Row(N(2), N(1), N(2), N(1), NaN, N(1), N(1)) >>

\* rows the tables of SpecCorr are built from: rows 1-4 together have a
\* Sales/Profit correlation of exactly 0.4, rows 5-8 of exactly -0.3
CorrPool ==
    << Row(N(1), N(1), N(1), N(1), N(0), N(-3), N(1)),
       Row(N(1), N(1), N(1), N(1), N(1), N(-1), N(1)),
       Row(N(1), N(1), N(2), N(2), N(2), N(0), N(1)),
       Row(N(1), N(1), N(2), N(2), N(3), N(-2), N(1)),
       Row(N(1), N(2), N(1), N(1), N(0), N(-4), N(1)),
       Row(N(1), N(2), N(1), N(1), N(1), N(-1), N(1)),
       Row(N(1), N(2), N(2), N(2), N(3), N(-2), N(1)),
       Row(N(1), N(2), N(2), N(2), N(4), N(-5), N(1)) >>

\* the tables with 1 to n rows taken from pool, in pool order
\* (repeat = TRUE: a row may occur several times)
IsSorted(s, strict) ==
    \A i \in 1..(Len(s) - 1) : IF strict THEN s[i] < s[i + 1] ELSE s[i] <= s[i + 1]

Tables(pool, n, repeat) ==
    { [i \in 1..Len(ix) |-> pool[ix[i]]] :
        ix \in { s \in UNION { [1..k -> 1..Len(pool)] : k \in 1..n } :
                   IsSorted(s, ~repeat) } }

-----------------------------------------------------------------------------
(* Series helpers (pandas semantics). *)

RECURSIVE SumSeq(_)
SumSeq(s) == IF s = <<>> THEN 0 ELSE Head(s) + SumSeq(Tail(s))

\* Series.sum(): NaN cells are skipped, an empty or all-NaN series sums to 0
SeriesSum(view, col) ==
    SumSeq([i \in 1..Len(view) |-> IF view[i][col].nan THEN 0 ELSE view[i][col].v])

\* the values of a column, in row order
Values(view, col) == { view[i][col] : i \in 1..Len(view) }

\* sorted(df["Product"].dropna().unique().tolist())
products == { c.v : c \in { x \in Values(df, "Product") : ~x.nan } }

\* df["Date"].min().date(), df["Date"].max().date(): NaT is skipped
Dates == { c.v : c \in { x \in Values(df, "Date") : ~x.nan } }
min_d == CHOOSE d \in Dates : \A e \in Dates : d <= e
max_d == CHOOSE d \in Dates : \A e \in Dates : e <= d

\* what st.sidebar.date_input can return: one date while the user is picking
\* the range, or a (start, end) pair with start <= end, all between min_value
\* and max_value
DateInputs ==
    { <<N(a)>> : a \in min_d..max_d }
        \cup UNION { { <<N(a), N(b)>> : b \in a..max_d } : a \in min_d..max_d }

-----------------------------------------------------------------------------
(* The filter step. *)

\* Python truthiness of "None or a list" and of "None or a tuple"
TruthyList(opt) == opt # None /\ opt[1] # {}
TruthyTuple(opt) == opt # None /\ Len(opt[1]) > 0

InDateRange(r, s, e) ==
    /\ ~r.Date.nan /\ ~s.nan /\ ~e.nan
    /\ r.Date.v >= s.v /\ r.Date.v <= e.v

DateFilter(view, dr) ==
    IF TruthyTuple(dr) /\ Len(dr[1]) = 2 /\ "Date" \in cols
    THEN SelectSeq(view, LAMBDA r : InDateRange(r, dr[1][1], dr[1][2]))
    ELSE view

ProductFilter(view, sp) ==
    IF TruthyList(sp) /\ "Product" \in cols
    THEN SelectSeq(view, LAMBDA r : ~r.Product.nan /\ r.Product.v \in sp[1])
    ELSE view

-----------------------------------------------------------------------------
(* Top metrics. *)

TopMetrics(view) ==
    [rows |-> Len(view),
     total_sales |-> IF "Sales" \in cols THEN Some(SeriesSum(view, "Sales")) ELSE None,
     total_profit |-> IF "Profit" \in cols THEN Some(SeriesSum(view, "Profit")) ELSE None,
     total_qty |-> IF "Quantity" \in cols THEN Some(SeriesSum(view, "Quantity")) ELSE None]

-----------------------------------------------------------------------------
(* Charts.  A chart variable is "undef" while the script has not bound the  *)
(* name, "None" when it was bound to None, "fig" when it holds a figure.    *)

FigNames == {"fig_q", "fig_profit_prod", "fig_sp", "fig_treemap", "fig_margin",
             "fig_top_cust", "fig_sales_hist", "fig_cat_pie"}

NoFigs == [n \in FigNames |-> "undef"]

\* the charts the script has drawn with st.plotly_chart
Rendered(f) == { n \in FigNames : f[n] = "fig" }

\* lines 109-129: each name is bound only inside its if
BasicCharts(f) ==
    [f EXCEPT !["fig_q"] = IF {"Date", "Quantity"} \subseteq cols THEN "fig" ELSE @,
              !["fig_profit_prod"] = IF {"Product", "Profit"} \subseteq cols THEN "fig" ELSE @,
              !["fig_sp"] = IF {"Sales", "Profit"} \subseteq cols THEN "fig" ELSE @]

-----------------------------------------------------------------------------
(* Aggregation and profit margin.  A ratio is an exact fraction num/den.    *)

Ratio(p, s) == [nan |-> FALSE, num |-> p, den |-> s]
Zero == Ratio(0, 1)
NaNRatio == [nan |-> TRUE, num |-> 0, den |-> 1]

RatEq(a, b) ==
    IF a.nan \/ b.nan THEN FALSE ELSE a.num * b.den = b.num * a.den

\* groupby keys of a record
KeyOf(r, keys) == [c \in keys |-> r[c]]

\* faulty variant: groupby with pandas' default dropna=True
GroupKeysDropNa(view, keys, dropna) ==
    { k \in { KeyOf(view[i], keys) : i \in 1..Len(view) } : \A c \in keys : ~k[c].nan }

\* df.groupby(keys, dropna=...): the distinct key combinations of the view
GroupKeys(view, keys, dropna) ==
    { k \in { KeyOf(view[i], keys) : i \in 1..Len(view) } :
        ~dropna \/ \A c \in keys : ~k[c].nan }

\* the named aggregation ("col", "sum") of one group
GroupSum(view, k, col) ==
    SeriesSum(SelectSeq(view, LAMBDA r : KeyOf(r, DOMAIN k) = k), col)

\* line 162: np.where(df_agg["Sales"] != 0, df_agg["Profit"] / df_agg["Sales"], 0.0)
AggMargin(sales, profit) ==
    IF sales # 0 THEN Ratio(profit, sales) ELSE Zero

\* lines 137-160: the three branches of the aggregation
AggCols == IF "Product" \in cols THEN {"Category", "Product"} ELSE {"Category"}

AggProfit(view, k) ==
    IF "Product" \in cols /\ "Profit" \in cols THEN GroupSum(view, k, "Profit")
    ELSE IF "Product" \in cols THEN 0
    ELSE IF "Profit" \in cols THEN GroupSum(view, k, "Profit")
    ELSE GroupSum(view, k, "Sales")

Aggregate(view) ==
    { [key |-> k,
       Sales |-> GroupSum(view, k, "Sales"),
       Profit |-> AggProfit(view, k),
       Profit_Margin |-> AggMargin(GroupSum(view, k, "Sales"), AggProfit(view, k))] :
      k \in GroupKeys(view, AggCols, FALSE) }

\* lines 186 and 240: np.where(Sales == 0, 0.0, Profit / Sales), per record
RecordMargin(r) ==
    IF ~r.Sales.nan /\ r.Sales.v = 0 THEN Zero
    ELSE IF r.Sales.nan \/ r.Profit.nan THEN NaNRatio
    ELSE Ratio(r.Profit.v, r.Sales.v)

ProfitMargins(view) == [i \in 1..Len(view) |-> RecordMargin(view[i])]

-----------------------------------------------------------------------------
(* Insights. *)

\* Series.corr (Pearson), over the records where both cells are present:
\* r = cov / sqrt(vx * vy), NaN for fewer than two points or a constant series
Corr(view) ==
    LET ok == SelectSeq(view, LAMBDA r : ~r.Sales.nan /\ ~r.Profit.nan)
        n == Len(ok)
        sx == SeriesSum(ok, "Sales")
        sy == SeriesSum(ok, "Profit")
        sxy == SumSeq([i \in 1..n |-> ok[i].Sales.v * ok[i].Profit.v])
        sxx == SumSeq([i \in 1..n |-> ok[i].Sales.v * ok[i].Sales.v])
        syy == SumSeq([i \in 1..n |-> ok[i].Profit.v * ok[i].Profit.v])
        cov == n * sxy - sx * sy
        vx == n * sxx - sx * sx
        vy == n * syy - sy * sy
    IN  IF n < 2 \/ vx = 0 \/ vy = 0
        THEN [nan |-> TRUE, cov |-> 0, vv |-> 1]
        ELSE [nan |-> FALSE, cov |-> cov, vv |-> vx * vy]

\* the thresholds of the correlation rule, as fractions <<p, q>> = p/q
StrongThreshold == <<4, 10>>
NegativeThreshold == <<-3, 10>>

\* faulty variant: r >= p/q in place of r > p/q
GreaterOrEqual(r, t) ==
    /\ ~r.nan
    /\ IF t[1] >= 0
       THEN r.cov > 0 /\ t[2] * t[2] * r.cov * r.cov >= t[1] * t[1] * r.vv
       ELSE r.cov >= 0 \/ t[2] * t[2] * r.cov * r.cov <= t[1] * t[1] * r.vv

\* r > p/q and r < p/q on floats: any comparison with NaN is False
Greater(r, t) ==
    /\ ~r.nan
    /\ IF t[1] >= 0
       THEN r.cov > 0 /\ t[2] * t[2] * r.cov * r.cov > t[1] * t[1] * r.vv
       ELSE r.cov >= 0 \/ t[2] * t[2] * r.cov * r.cov < t[1] * t[1] * r.vv

Less(r, t) ==
    /\ ~r.nan
    /\ IF t[1] <= 0
       THEN r.cov < 0 /\ t[2] * t[2] * r.cov * r.cov > t[1] * t[1] * r.vv
       ELSE r.cov <= 0 \/ t[2] * t[2] * r.cov * r.cov < t[1] * t[1] * r.vv

\* the length of the name a key code stands for
NameLen(k) == 25 * k

\* an InsightStatement: the rule that made it, the name it mentions, its length
Insight(rule, arg, len) == [rule |-> rule, arg |-> arg, len |-> len]

CorrInsight(r) ==
    IF Greater(r, StrongThreshold) THEN Insight("corr_strong", 0, 100)
    ELSE IF Less(r, NegativeThreshold) THEN Insight("corr_negative", 0, 81)
    ELSE Insight("corr_weak", 0, 77)

\* df_view["Category"].value_counts(): counts per category, NaN dropped
CategoryCount(view, c) ==
    Len(SelectSeq(view, LAMBDA r : ~r.Category.nan /\ r.Category.v = c))

Categories(view) == { x.v : x \in { y \in Values(view, "Category") : ~y.nan } }

\* .idxmax(): a most frequent category (which one among equals is left open)
TopCats(view) ==
    { c \in Categories(view) :
        \A d \in Categories(view) : CategoryCount(view, d) <= CategoryCount(view, c) }

\* Series.skew() of the margins: NaN below three values, 0 for a constant
\* series; otherwise the statistic is left open ("low" or "high": > 1)
Skews(view) ==
    LET m == SelectSeq(ProfitMargins(view), LAMBDA x : ~x.nan)
    IN  IF Len(m) < 3 THEN {"nan"}
        ELSE IF \A i \in 1..Len(m) : RatEq(m[i], m[1]) THEN {"zero"}
        ELSE {"low", "high"}

SkewInsight(sk) ==
    IF sk = "high" THEN Insight("skewed", 0, 26) ELSE Insight("balanced", 0, 35)

\* df_view.groupby("Customer")["Sales"].sum().idxmax(): groups are sorted by
\* key and NaN keys dropped; the first group with the largest sum
CustomerKeys(view) == GroupKeys(view, {"Customer"}, TRUE)

TopCustomer(view) ==
    LET best == { k \in CustomerKeys(view) :
                    \A j \in CustomerKeys(view) :
                        GroupSum(view, j, "Sales") <= GroupSum(view, k, "Sales") }
    IN  (CHOOSE k \in best : \A j \in best : k["Customer"].v <= j["Customer"].v)["Customer"].v

Opt(cond, x) == IF cond THEN <<x>> ELSE <<>>

\* lines 227-246, given the open choices top_cat and sk
InsightList(view, top_cat, sk) ==
    Opt({"Sales", "Profit"} \subseteq cols, CorrInsight(Corr(view)))
    \o Opt("Category" \in cols, Insight("top_category", top_cat, 80 + NameLen(top_cat)))
    \o Opt({"Sales", "Profit"} \subseteq cols, SkewInsight(sk))
    \o Opt({"Customer", "Sales"} \subseteq cols,
           Insight("top_customer", TopCustomer(view), 19 + NameLen(TopCustomer(view))))
    \o Opt({"Quantity", "Date"} \subseteq cols, Insight("temporal", 0, 65))

\* idxmax of an empty series raises ValueError
InsightsRaise(view) ==
    \/ "Category" \in cols /\ Categories(view) = {}
    \/ {"Customer", "Sales"} \subseteq cols /\ CustomerKeys(view) = {}

-----------------------------------------------------------------------------
(* Export section. *)

\* "a or b or ...": the first truthy operand, else the last one; reading a
\* name the script never bound raises NameError
RECURSIVE OrChain(_, _)
OrChain(f, names) ==
    IF f[Head(names)] = "undef" THEN [raised |-> TRUE, value |-> None]
    ELSE IF f[Head(names)] = "fig" \/ Len(names) = 1
         THEN [raised |-> FALSE,
               value |-> IF f[Head(names)] = "fig" THEN Some(Head(names)) ELSE None]
    ELSE OrChain(f, Tail(names))

\* line 257: (fig_treemap or fig_sp or fig_sales_hist or fig_profit_prod)
\*           if 'fig_profit_prod' in locals()
\*           else (fig_sp if 'fig_sp' in locals() else None)
ExportFig(f) ==
    IF f["fig_profit_prod"] # "undef"
    THEN OrChain(f, <<"fig_treemap", "fig_sp", "fig_sales_hist", "fig_profit_prod">>)
    ELSE IF f["fig_sp"] # "undef"
         THEN [raised |-> FALSE, value |-> Some("fig_sp")]
         ELSE [raised |-> FALSE, value |-> None]

\* program constants of make_pdf_bytes_text_only
WrapWidth == 100
FirstY == 750
LineStep == 14
BottomMargin == 100
PageTopY == 800

Min(a, b) == IF a <= b THEN a ELSE b

\* faulty variant: line[:100], the rest of a long statement is dropped
WrappedFirstOnly(i, len) ==
    IF len = 0 THEN <<>>
    ELSE << [t |-> "insight", i |-> i, from |-> 0, to |-> Min(len, WrapWidth)] >>

\* [line[i:i+100] for i in range(0, len(line), 100)] for the i-th insight:
\* each piece is the half-open character range from..to of the statement
Wrapped(i, len) ==
    [j \in 1..((len + WrapWidth - 1) \div WrapWidth) |->
        [t |-> "insight", i |-> i,
         from |-> (j - 1) * WrapWidth, to |-> Min(len, j * WrapWidth)]]

RECURSIVE WrappedAll(_, _)
WrappedAll(list, i) ==
    IF i > Len(list) THEN <<>>
    ELSE Wrapped(i, list[i].len) \o WrappedAll(list, i + 1)

\* the drawString loop: pages finished so far, the page being drawn, the cursor
RECURSIVE DrawLines(_, _, _, _)
DrawLines(ws, pages, page, y) ==
    IF ws = <<>> THEN [pages |-> pages, page |-> page]
    ELSE LET drawn == Append(page, [op |-> "text", y |-> y, text |-> Head(ws)])
         IN  IF y - LineStep < BottomMargin
             THEN DrawLines(Tail(ws), Append(pages, drawn), <<>>, PageTopY)
             ELSE DrawLines(Tail(ws), pages, drawn, y - LineStep)

\* faulty variant: the "Generated: ..." line is not drawn
PdfHeaderNoTimestamp(title_text) ==
    << [op |-> "text", y |-> 800, text |-> [t |-> "title", s |-> title_text]] >>

\* the title and the "Generated: <utcnow> UTC" line both PDF builders draw
PdfHeader(title_text) ==
    << [op |-> "text", y |-> 800, text |-> [t |-> "title", s |-> title_text]],
       [op |-> "text", y |-> 785, text |-> [t |-> "timestamp"]] >>

\* lines 294-319
make_pdf_bytes_text_only(title_text, insights_list) ==
    LET d == DrawLines(WrappedAll(insights_list, 1), <<>>, PdfHeader(title_text), FirstY)
    IN  [kind |-> "pdf", pages |-> Append(d.pages, d.page)]

\* lines 270-292; embedded: ImageReader / drawImage did not raise
make_pdf_bytes_with_image(title_text, png_bytes, embedded) ==
    [kind |-> "pdf",
     pages |-> << PdfHeader(title_text)
                  \o (IF embedded
                      THEN << [op |-> "image", y |-> 350, image |-> png_bytes] >>
                      ELSE << [op |-> "text", y |-> 740, text |-> [t |-> "note"]],
                              [op |-> "text", y |-> 725, text |-> [t |-> "image_error"]] >>) >>]

\* pio.to_image(fig, format="png", ...)
Png(fig) == [kind |-> "png", chart |-> fig]

\* faulty variant: include_plotlyjs=False, the document does not load the library
to_html_without_library(fig) ==
    [kind |-> "html", full_html |-> TRUE,
     fragments |-> << [chart |-> fig, plotlyjs |-> FALSE] >>]

\* fig.to_html(full_html=True, include_plotlyjs='cdn'): one document holding
\* the figure's markup and one script tag that loads the library
to_html(fig) ==
    [kind |-> "html", full_html |-> TRUE,
     fragments |-> << [chart |-> fig, plotlyjs |-> TRUE] >>]

Download(label, data, file_name) == Some([label |-> label, data |-> data, file_name |-> file_name])

-----------------------------------------------------------------------------
(* The script run. *)

Init ==
    /\ df \in Tables(Pool, MaxRows, TRUE)
    /\ cols \in SUBSET Columns
    /\ otherCols \in (IF cols = {} THEN BOOLEAN ELSE {FALSE})
    /\ dateParsed \in (IF "Date" \in cols THEN BOOLEAN ELSE {FALSE})
    /\ pc = "filters"
    /\ date_range = None
    /\ selected_products = None
    /\ show_profit_margin = TRUE
    /\ df_view = <<>>
    /\ margins = None
    /\ metrics = None
    /\ figs = NoFigs
    /\ df_agg = None
    /\ insights = <<>>
    /\ corr_sp = None
    /\ export_fig = None
    /\ artifact = None
    /\ notice = "none"
    /\ error = "none"

ApplyFilters ==
    /\ pc = "filters"
    /\ \E dr \in (IF "Date" \in cols /\ dateParsed
                  THEN { Some(x) : x \in DateInputs } ELSE {None}),
          sp \in (IF "Product" \in cols
                  THEN { Some(x) : x \in SUBSET products } ELSE {None}),
          spm \in BOOLEAN :
        /\ date_range' = dr
        /\ selected_products' = sp
        /\ show_profit_margin' = spm
        /\ df_view' = ProductFilter(DateFilter(df, dr), sp)
    /\ pc' = "metrics"
    /\ UNCHANGED <<df, cols, otherCols, dateParsed, margins, metrics, figs, df_agg,
                   insights, corr_sp, export_fig, artifact, notice, error>>

Metrics ==
    /\ pc = "metrics"
    /\ metrics' = Some(TopMetrics(df_view))
    /\ pc' = "charts"
    /\ UNCHANGED <<df, cols, otherCols, dateParsed, date_range, selected_products,
                   show_profit_margin, df_view, margins, figs, df_agg, insights,
                   corr_sp, export_fig, artifact, notice, error>>

Charts ==
    /\ pc = "charts"
    /\ figs' = BasicCharts(figs)
    /\ pc' = "treemap"
    /\ UNCHANGED <<df, cols, otherCols, dateParsed, date_range, selected_products,
                   show_profit_margin, df_view, margins, metrics, df_agg, insights,
                   corr_sp, export_fig, artifact, notice, error>>

Treemap ==
    /\ pc = "treemap"
    /\ IF {"Category", "Sales"} \subseteq cols
       THEN /\ df_agg' = Some(Aggregate(df_view))
            /\ figs' = [figs EXCEPT !["fig_treemap"] = "fig"]
       ELSE /\ df_agg' = None
            /\ figs' = [figs EXCEPT !["fig_treemap"] = "None"]
    /\ pc' = "distributions"
    /\ UNCHANGED <<df, cols, otherCols, dateParsed, date_range, selected_products,
                   show_profit_margin, df_view, margins, metrics, insights,
                   corr_sp, export_fig, artifact, notice, error>>

\* lines 183-217: margin histogram, top customers, sales histogram, category pie
Distributions ==
    /\ pc = "distributions"
    /\ LET hasMargin == show_profit_margin /\ {"Profit", "Sales"} \subseteq cols
       IN  /\ margins' = IF hasMargin THEN Some(ProfitMargins(df_view)) ELSE None
           /\ figs' = [figs EXCEPT
                  !["fig_margin"] = IF hasMargin THEN "fig" ELSE @,
                  !["fig_top_cust"] =
                      IF {"Customer", "Sales"} \subseteq cols THEN "fig" ELSE "None",
                  !["fig_sales_hist"] = IF "Sales" \in cols THEN "fig" ELSE "None",
                  !["fig_cat_pie"] = IF "Category" \in cols THEN "fig" ELSE "None"]
    /\ pc' = "summary"
    /\ UNCHANGED <<df, cols, otherCols, dateParsed, date_range, selected_products,
                   show_profit_margin, df_view, metrics, df_agg, insights,
                   corr_sp, export_fig, artifact, notice, error>>

\* line 222: describe() raises ValueError on a frame without columns
StatisticalSummary ==
    /\ pc = "summary"
    /\ IF cols = {} /\ ~otherCols
       THEN pc' = "crashed" /\ error' = "ValueError"
       ELSE pc' = "insights" /\ error' = error
    /\ UNCHANGED <<df, cols, otherCols, dateParsed, date_range, selected_products,
                   show_profit_margin, df_view, margins, metrics, figs, df_agg,
                   insights, corr_sp, export_fig, artifact, notice>>

Insights ==
    /\ pc = "insights"
    /\ corr_sp' = IF {"Sales", "Profit"} \subseteq cols THEN Some(Corr(df_view)) ELSE None
    /\ IF InsightsRaise(df_view)
       THEN /\ pc' = "crashed"
            /\ error' = "ValueError"
            /\ insights' = <<>>
       ELSE /\ \E top_cat \in (IF "Category" \in cols THEN TopCats(df_view) ELSE {0}),
                  sk \in (IF {"Sales", "Profit"} \subseteq cols
                          THEN Skews(df_view) ELSE {"nan"}) :
                    insights' = InsightList(df_view, top_cat, sk)
            /\ pc' = "export"
            /\ error' = error
    /\ UNCHANGED <<df, cols, otherCols, dateParsed, date_range, selected_products,
                   show_profit_margin, df_view, margins, metrics, figs, df_agg,
                   export_fig, artifact, notice>>

ChooseExportFig ==
    /\ pc = "export"
    /\ IF ExportFig(figs).raised
       THEN /\ pc' = "crashed"
            /\ error' = "NameError"
            /\ UNCHANGED <<export_fig, notice>>
       ELSE /\ export_fig' = ExportFig(figs).value
            /\ notice' = IF ExportFig(figs).value = None THEN "info_no_figure" ELSE notice
            /\ pc' = "buttons"
            /\ error' = error
    /\ UNCHANGED <<df, cols, otherCols, dateParsed, date_range, selected_products,
                   show_profit_margin, df_view, margins, metrics, figs, df_agg,
                   insights, corr_sp, artifact>>

\* lines 327-335; raster: pio.to_image succeeded
ClickPNG ==
    /\ pc = "buttons"
    /\ export_fig # None
    /\ \E raster \in BOOLEAN :
        IF raster
        THEN /\ artifact' = Download("Download PNG", Png(export_fig[1]),
                                     "dashboard_snapshot.png")
             /\ notice' = notice
        ELSE /\ notice' = "error_png_failed"
             /\ artifact' = Download("Download interactive HTML snapshot",
                                     to_html(export_fig[1]), "dashboard_snapshot.html")
    /\ pc' = "done"
    /\ UNCHANGED <<df, cols, otherCols, dateParsed, date_range, selected_products,
                   show_profit_margin, df_view, margins, metrics, figs, df_agg,
                   insights, corr_sp, export_fig, error>>

\* lines 338-347
ClickPDF ==
    /\ pc = "buttons"
    /\ export_fig # None
    /\ \E raster \in BOOLEAN, embedded \in BOOLEAN :
        IF raster
        THEN /\ artifact' = Download("Download PDF (with image)",
                                     make_pdf_bytes_with_image("Sales EDA -- Snapshot",
                                         Png(export_fig[1]), embedded),
                                     "Sales_Report_with_image.pdf")
             /\ notice' = notice
        ELSE /\ notice' = "warning_pdf_image_failed"
             /\ artifact' = Download("Download PDF (text summary)",
                                     make_pdf_bytes_text_only("Sales EDA -- Summary", insights),
                                     "Sales_Report_summary.pdf")
    /\ pc' = "done"
    /\ UNCHANGED <<df, cols, otherCols, dateParsed, date_range, selected_products,
                   show_profit_margin, df_view, margins, metrics, figs, df_agg,
                   insights, corr_sp, export_fig, error>>

\* lines 351-353
ClickHTML ==
    /\ pc = "buttons"
    /\ export_fig # None
    /\ artifact' = Download("Download interactive HTML", to_html(export_fig[1]),
                            "dashboard_interactive.html")
    /\ pc' = "done"
    /\ UNCHANGED <<df, cols, otherCols, dateParsed, date_range, selected_products,
                   show_profit_margin, df_view, margins, metrics, figs, df_agg,
                   insights, corr_sp, export_fig, notice, error>>

\* a widget change re-runs the script from the loaded table
Rerun ==
    /\ pc \in {"buttons", "done", "crashed"}
    /\ pc' = "filters"
    /\ date_range' = None
    /\ selected_products' = None
    /\ show_profit_margin' = TRUE
    /\ df_view' = <<>>
    /\ margins' = None
    /\ metrics' = None
    /\ figs' = NoFigs
    /\ df_agg' = None
    /\ insights' = <<>>
    /\ corr_sp' = None
    /\ export_fig' = None
    /\ artifact' = None
    /\ notice' = "none"
    /\ error' = "none"
    /\ UNCHANGED <<df, cols, otherCols, dateParsed>>

Next == ApplyFilters \/ Metrics \/ Charts \/ Treemap \/ Distributions
        \/ StatisticalSummary \/ Insights \/ ChooseExportFig
        \/ ClickPNG \/ ClickPDF \/ ClickHTML \/ Rerun

Spec == Init /\ [][Next]_vars

\* the same script over the tables made of CorrPool rows, all columns present
InitCorr ==
    /\ df \in Tables(CorrPool, MaxCorrRows, FALSE)
    /\ cols = Columns
    /\ otherCols = FALSE
    /\ dateParsed = TRUE
    /\ pc = "filters"
    /\ date_range = None
    /\ selected_products = None
    /\ show_profit_margin = TRUE
    /\ df_view = <<>>
    /\ margins = None
    /\ metrics = None
    /\ figs = NoFigs
    /\ df_agg = None
    /\ insights = <<>>
    /\ corr_sp = None
    /\ export_fig = None
    /\ artifact = None
    /\ notice = "none"
    /\ error = "none"

SpecCorr == InitCorr /\ [][Next]_vars

-----------------------------------------------------------------------------
(* Properties. *)

\* the filter step has run in this pass
Filtered == pc \notin {"filters"}

\* the text items drawn anywhere in a PDF
TextItems(doc) ==
    UNION { { doc.pages[p][k].text :
                k \in { j \in 1..Len(doc.pages[p]) : doc.pages[p][j].op = "text" } } :
            p \in 1..Len(doc.pages) }

HasTitle(doc) == \E x \in TextItems(doc) : x.t = "title"
HasTimestamp(doc) == \E x \in TextItems(doc) : x.t = "timestamp"
HasImage(doc) == \E p \in 1..Len(doc.pages) : \E k \in 1..Len(doc.pages[p]) :
                    doc.pages[p][k].op = "image"

\* every character of the i-th statement is on some drawn piece
HasInsight(doc, i, len) ==
    \A c \in 0..(len - 1) :
        \E x \in TextItems(doc) : x.t = "insight" /\ x.i = i /\ x.from <= c /\ c < x.to

HasAllInsights(doc, list) == \A i \in 1..Len(list) : HasInsight(doc, i, list[i].len)

HasNoInsight(doc) == \A x \in TextItems(doc) : x.t # "insight"

IsPdf == artifact # None /\ artifact[1].data.kind = "pdf"
IsHtml == artifact # None /\ artifact[1].data.kind = "html"

RECURSIVE SumOver(_, _)
SumOver(rows, col) ==
    IF rows = {} THEN 0
    ELSE LET r == CHOOSE x \in rows : TRUE IN r[col] + SumOver(rows \ {r}, col)

\* C1: with a Product column, selecting zero products leaves zero rows in the
\* FilteredView, whatever the table and the date range.
C1_ZeroProductsEmptyView ==
    (Filtered /\ "Product" \in cols /\ selected_products = Some({}))
        => Len(df_view) = 0

\* the columns each chart is computed from
Requires(n) ==
    CASE n = "fig_q" -> {"Date", "Quantity"}
      [] n = "fig_profit_prod" -> {"Product", "Profit"}
      [] n = "fig_sp" -> {"Sales", "Profit"}
      [] n = "fig_treemap" -> {"Category", "Sales"}
      [] n = "fig_margin" -> {"Profit", "Sales"}
      [] n = "fig_top_cust" -> {"Customer", "Sales"}
      [] n = "fig_sales_hist" -> {"Sales"}
      [] n = "fig_cat_pie" -> {"Category"}

\* C2: for every subset of the well-known columns the render pass skips the
\* charts whose columns are missing and reaches the export section; it never
\* stops on a reference to a chart variable that was never created.
C2_NoUnboundChartVariable ==
    /\ \A n \in Rendered(figs) : Requires(n) \subseteq cols
    /\ ~(pc = "crashed" /\ error = "NameError")

\* the first rendered chart in the order treemap, sales-vs-profit, histogram
PreferredFig ==
    IF figs["fig_treemap"] = "fig" THEN Some("fig_treemap")
    ELSE IF figs["fig_sp"] = "fig" THEN Some("fig_sp")
    ELSE IF figs["fig_sales_hist"] = "fig" THEN Some("fig_sales_hist")
    ELSE None

\* C3: the export chart is the treemap when it was rendered, else the
\* sales-vs-profit chart when rendered, else the sales histogram when
\* rendered, and None (export disabled, no error) only when none of the
\* three exists.
C3_ExportPreferenceOrder ==
    /\ pc \in {"buttons", "done"} => export_fig = PreferredFig
    /\ pc = "crashed" => error # "NameError"

\* C4: when the PDF button's rasterization fails, the same run offers a
\* non-empty text-only PDF with the title, the timestamp and every
\* InsightStatement, shows the warning, and ends without an error.
C4_TextOnlyFallback ==
    notice = "warning_pdf_image_failed" =>
        /\ pc = "done" /\ error = "none"
        /\ IsPdf
        /\ artifact[1].file_name = "Sales_Report_summary.pdf"
        /\ Len(artifact[1].data.pages) >= 1
        /\ HasTitle(artifact[1].data)
        /\ HasTimestamp(artifact[1].data)
        /\ HasAllInsights(artifact[1].data, insights)
        /\ ~HasImage(artifact[1].data)

\* C4 witness: the fallback PDF of a run whose insights include a statement
\* longer than one wrapped line
C4_Witness ==
    /\ notice = "warning_pdf_image_failed"
    /\ IsPdf
    /\ \E i \in 1..Len(insights) : insights[i].len > WrapWidth

C7_MarginGuard ==
    /\ margins # None =>
          \A i \in 1..Len(df_view) :
              /\ ~margins[1][i].nan
              /\ IF df_view[i].Sales = N(0)
                 THEN margins[1][i] = Zero
                 ELSE RatEq(margins[1][i], Ratio(df_view[i].Profit.v, df_view[i].Sales.v))
    /\ (df_agg # None /\ "Profit" \in cols) =>
          \A g \in df_agg[1] :
              LET sales == GroupSum(df_view, g.key, "Sales")
                  profit == GroupSum(df_view, g.key, "Profit")
              IN  /\ ~g.Profit_Margin.nan
                  /\ IF sales = 0 THEN g.Profit_Margin = Zero
                     ELSE RatEq(g.Profit_Margin, Ratio(profit, sales))

\* C8: the aggregate rows partition the FilteredView: their Sales sum to the
\* view's total Sales and their Profit to the view's total Profit, records
\* with a missing key included, and every aggregate row's key occurs in the view.
C8_Partition ==
    (df_agg # None /\ metrics # None) =>
        /\ Some(SumOver(df_agg[1], "Sales")) = metrics[1].total_sales
        /\ "Profit" \in cols => Some(SumOver(df_agg[1], "Profit")) = metrics[1].total_profit
        /\ \A g \in df_agg[1] :
              \E i \in 1..Len(df_view) : \A c \in DOMAIN g.key : df_view[i][c] = g.key[c]
        /\ \A i \in 1..Len(df_view) :
              \E g \in df_agg[1] : \A c \in DOMAIN g.key : df_view[i][c] = g.key[c]

\* C8 witness: two aggregate rows, one of them for records whose key is
\* missing, over a view with Sales and Profit
C8_Witness ==
    /\ df_agg # None
    /\ "Profit" \in cols
    /\ Cardinality(df_agg[1]) >= 2
    /\ \E g \in df_agg[1] : g.key["Category"].nan /\ g.Sales # 0 /\ g.Profit # 0

\* the statements of the correlation rule
CorrRules == {"corr_strong", "corr_negative", "corr_weak"}

\* C9: with Sales and Profit the correlation rule emits exactly one statement:
\* strong iff r > 0.4, negative iff r < -0.3, weak otherwise, so r = 0.4,
\* r = -0.3 and a NaN correlation give the weak statement.
C9_CorrelationBuckets ==
    (pc \in {"export", "buttons", "done"} /\ corr_sp # None) =>
        LET r == corr_sp[1]
            strong == ~r.nan /\ r.cov > 0 /\ 25 * r.cov * r.cov > 4 * r.vv
            negative == ~r.nan /\ r.cov < 0 /\ 100 * r.cov * r.cov > 9 * r.vv
            made == { i \in 1..Len(insights) : insights[i].rule \in CorrRules }
        IN  /\ Cardinality(made) = 1
            /\ \A i \in made :
                  insights[i].rule = IF strong THEN "corr_strong"
                                     ELSE IF negative THEN "corr_negative"
                                     ELSE "corr_weak"

\* C9 witness: a view whose correlation is exactly 0.4, reported as weak
C9_Witness ==
    /\ pc = "export"
    /\ corr_sp # None
    /\ ~corr_sp[1].nan /\ corr_sp[1].cov > 0
    /\ 25 * corr_sp[1].cov * corr_sp[1].cov = 4 * corr_sp[1].vv
    /\ \E i \in 1..Len(insights) : insights[i].rule = "corr_weak"

\* C10: with an empty FilteredView and a Category or Customer column the
\* insight step still completes and the pass goes on to the export section.
C10_EmptyViewInsights ==
    (Filtered /\ df_view = <<>> /\ cols \cap {"Category", "Customer"} # {})
        => pc # "crashed"
====
